---- MODULE Spec2Model ----
(***************************************************************************)
(* Effect creation on the Cesium map: the cone and wall effects of         *)
(* geometry.ts and the fence module, and the RadarEmission class.          *)
(*                                                                         *)
(* Lengths are metres, angles are degrees where the source takes degrees;  *)
(* a value in radians is counted in quarter turns (pi/2), which is exact   *)
(* for the multiples of 90 degrees the model draws its angles from.        *)
(* An optional property of a JavaScript options object is a record field   *)
(* that is present or absent.                                              *)
(***************************************************************************)
EXTENDS Integers, Sequences, FiniteSets, TLC

VARIABLES
    map,            \* mapStore.getMap(): TRUE when the map instance exists
    graphicMap,     \* mapStore's id -> handle mapping (NoHandle: no entry)
    primitives,     \* handles in map.scene.primitives
    entities,       \* handles in map.entities / viewer.entities
    nextHandle,     \* the next object the rendering engine hands out
    materialType,   \* Cesium.Material.radarPrimitiveType is set
    materialCache,  \* number of addMaterial calls for "radarPrimitive"
    radar,          \* RadarEmission instances: version and this.entity
    lastCall,       \* the operation that ran last and its arguments
    built,          \* what the last call handed to the rendering engine
    ret,            \* the value the last call returned
    log,            \* the diagnostic the last call wrote to the console
    now,            \* new Date().getTime(), in milliseconds
    material,       \* a RadarPrimitiveMaterialProperty instance (its fields)
    snapshot        \* the uniforms the last getValue call returned

clockVars == <<now, material, snapshot>>

vars == <<map, graphicMap, primitives, entities, nextHandle, materialType,
          materialCache, radar, lastCall, built, ret, log, now, material,
          snapshot>>

-----------------------------------------------------------------------------
(* Bounds *)

MaxHandles == 2
MaxInstances == 1
MaxVerts == 2

Ids == {"a", "b"}
Instances == 1..MaxInstances

-----------------------------------------------------------------------------
(* Values *)

NoHandle == 0       \* undefined: getGraphicMap finds nothing
Undefined == 0      \* a function that returns nothing
NullRet == -1       \* return null
Threw == -2         \* the call ended in an uncaught exception
NoEntity == -1      \* this.entity = null
NoBuild == [kind |-> "none"]
NoMaterial == [kind |-> "none"]     \* no material property constructed yet
NoSnapshot == [kind |-> "none"]     \* getValue was not called yet

Has(o, f) == f \in DOMAIN o

\* JavaScript `o.f || d` for a numeric property: absent and 0 are falsy.
OrDefault(o, f, d) == IF Has(o, f) /\ o[f] # 0 THEN o[f] ELSE d

-----------------------------------------------------------------------------
(* Vectors and rotations, exact on the integer lattice *)

Abs(n) == IF n < 0 THEN -n ELSE n

ISqrt(n) == CHOOSE r \in 0..n : r * r <= n /\ n < (r + 1) * (r + 1)

ZERO == <<0, 0, 0>>
UNIT_Z == <<0, 0, 1>>

Add(u, v) == <<u[1] + v[1], u[2] + v[2], u[3] + v[3]>>
Subtract(u, v) == <<u[1] - v[1], u[2] - v[2], u[3] - v[3]>>
MultiplyByScalar(u, k) == <<u[1] * k, u[2] * k, u[3] * k>>
Dot(u, v) == u[1] * v[1] + u[2] * v[2] + u[3] * v[3]
Cross(u, v) == <<u[2] * v[3] - u[3] * v[2],
                 u[3] * v[1] - u[1] * v[3],
                 u[1] * v[2] - u[2] * v[1]>>

\* Cartesian3.magnitude. A vector along one axis has the magnitude of its
\* one component, which keeps the squares of earth-sized vectors out of the
\* arithmetic.
Magnitude(u) ==
    IF Cardinality({i \in 1..3 : u[i] # 0}) <= 1
    THEN Abs(u[1]) + Abs(u[2]) + Abs(u[3])
    ELSE ISqrt(Dot(u, u))

\* Cartesian3.normalize: the vector over its magnitude.
Normalize(u) ==
    LET m == Magnitude(u)
    IN  <<u[1] \div m, u[2] \div m, u[3] \div m>>

\* A 3x3 matrix is the tuple of its rows.
MatVec(m, v) == <<Dot(m[1], v), Dot(m[2], v), Dot(m[3], v)>>
Col(m, j) == <<m[1][j], m[2][j], m[3][j]>>
MatMul(a, b) ==
    [i \in 1..3 |-> [j \in 1..3 |-> Dot(a[i], Col(b, j))]]
FromColumns(c1, c2, c3) ==
    <<<<c1[1], c2[1], c3[1]>>, <<c1[2], c2[2], c3[2]>>, <<c1[3], c2[3], c3[3]>>>>

\* Cesium.Math.toRadians: degrees to radians, counted in quarter turns.
toRadians(deg) == deg \div 90

\* sine and cosine of q quarter turns.
Sin(q) == <<0, 1, 0, -1>>[(q % 4) + 1]
Cos(q) == <<1, 0, -1, 0>>[(q % 4) + 1]

RotX(q) == <<<<1, 0, 0>>, <<0, Cos(q), -Sin(q)>>, <<0, Sin(q), Cos(q)>>>>
RotY(q) == <<<<Cos(q), 0, Sin(q)>>, <<0, 1, 0>>, <<-Sin(q), 0, Cos(q)>>>>
RotZ(q) == <<<<Cos(q), -Sin(q), 0>>, <<Sin(q), Cos(q), 0>>, <<0, 0, 1>>>>

-----------------------------------------------------------------------------
(* The rendering engine's geodesy (Cesium), on the ellipsoid's axes *)

EquatorialRadius == 6378137
PolarRadius == 6356752

\* Cartesian3.fromDegrees: the surface point under (lng, lat) plus height
\* along the surface normal.
fromDegrees(lng, lat, height) ==
    LET lo == toRadians(lng)
        la == toRadians(lat)
        n == <<Cos(la) * Cos(lo), Cos(la) * Sin(lo), Sin(la)>>
        r == IF n[3] = 0 THEN EquatorialRadius ELSE PolarRadius
    IN  MultiplyByScalar(n, r + height)

\* Transforms.eastNorthUpToFixedFrame: the rotation whose columns are the
\* east, north and up directions at origin (degenerate at the poles and at
\* the centre of the ellipsoid).
eastNorthUp(origin) ==
    IF origin[1] = 0 /\ origin[2] = 0
    THEN IF origin[3] < 0
         THEN FromColumns(<<0, 1, 0>>, <<1, 0, 0>>, <<0, 0, -1>>)
         ELSE FromColumns(<<0, 1, 0>>, <<-1, 0, 0>>, <<0, 0, 1>>)
    ELSE LET up == Normalize(<<origin[1], origin[2], 0>>)
             east == Normalize(<<-origin[2], origin[1], 0>>)
         IN  FromColumns(east, Cross(up, east), up)

\* Quaternion.fromHeadingPitchRoll, as a rotation: heading about -Z, then
\* pitch about -Y, then roll about X.
fromHeadingPitchRoll(hpr) ==
    MatMul(RotZ(-hpr.heading), MatMul(RotY(-hpr.pitch), RotX(hpr.roll)))

\* Transforms.headingPitchRollToFixedFrame(origin, hpr).
headingPitchRollToFixedFrame(origin, hpr) ==
    [rotation |-> MatMul(eastNorthUp(origin), fromHeadingPitchRoll(hpr)),
     translation |-> origin]

\* Matrix4.multiplyByPointAsVector: the rotation alone, no translation.
multiplyByPointAsVector(transform, v) == MatVec(transform.rotation, v)

\* Transforms.headingPitchRollQuaternion(origin, hpr): the rotation of the
\* heading-pitch-roll frame whose tangent frame is taken at origin.
headingPitchRollQuaternion(origin, hpr) == [frameOrigin |-> origin, hpr |-> hpr]

\* Matrix3.fromQuaternion: the rotation matrix of such a quaternion.
fromQuaternion(q) == MatMul(eastNorthUp(q.frameOrigin), fromHeadingPitchRoll(q.hpr))

-----------------------------------------------------------------------------
(* mapStore: the map instance and the id -> handle registry *)

getMap == map
getGraphicMap(id) == graphicMap[id]
setGraphicMap(id, handle) == [graphicMap EXCEPT ![id] = handle]

-----------------------------------------------------------------------------
(* Inputs *)

\* Stage at which the rendering engine throws during a creation: while a
\* geometry, material or primitive is constructed, or on insertion into the
\* scene.
Faults == {"none", "construct", "add"}

\* Wall vertices [lng, lat] and [lng, lat, height].
Vertices == <<<<0, 0>>, <<90, 0, 5>>>>

\* One vertex sequence of each length up to MaxVerts, the two vertices
\* alternating.
WallPositions ==
    {[k \in 1..n |-> Vertices[(k % 2) + 1]] : n \in 0..MaxVerts}

WallOptions ==
    {[id |-> i] : i \in Ids}
    \cup {[id |-> i, positions |-> p] : i \in Ids, p \in WallPositions}
    \cup {[id |-> i, positions |-> p, maxHeight |-> h] :
            i \in Ids, p \in WallPositions, h \in {0, -5, 50}}

FlowOptions ==
    {[id |-> i] : i \in Ids}
    \cup {[id |-> i, positions |-> p] : i \in Ids, p \in WallPositions}

\* Anchors [lng, lat] and [lng, lat, height], on the axes of the ellipsoid.
WaveOptions ==
    {[id |-> i, positions |-> a, heading |-> 90, pitch |-> p, length |-> l,
      bottomRadius |-> 50] :
        i \in Ids, a \in {<<0, 0>>, <<90, 0, 1000>>}, p \in {0, 90},
        l \in {0, 200}}

\* heading and pitch of conicalEffect are radians, in quarter turns.
ConeOptions ==
    {[id |-> i] : i \in Ids}
    \cup {[id |-> i, positions |-> a] : i \in Ids, a \in {<<0, 0>>, <<90, 0, 10>>}}
    \cup {[id |-> i, positions |-> <<90, 0, 10>>, height |-> h] :
            i \in Ids, h \in {0, 300}}
    \cup {[id |-> i, positions |-> <<0, 0, 10>>, height |-> 300, heading |-> 1,
           pitch |-> 1] : i \in Ids}

RadarOptions ==
    {[position |-> a, heading |-> 90, pitch |-> p] :
        a \in {<<0, 0, 0>>, <<90, 0, 1000>>}, p \in {0, 90}}
    \cup {[position |-> a, heading |-> 90, pitch |-> p, length |-> 200] :
        a \in {<<0, 0, 0>>, <<90, 0, 1000>>}, p \in {0, 90}}

-----------------------------------------------------------------------------
(* Initial state and the host *)

Init ==
    /\ map = FALSE
    /\ graphicMap = [i \in Ids |-> NoHandle]
    /\ primitives = {}
    /\ entities = {}
    /\ nextHandle = 1
    /\ materialType = FALSE
    /\ materialCache = 0
    /\ radar = [n \in Instances |-> [version |-> 0, entity |-> NoEntity]]
    /\ lastCall = [op |-> "none"]
    /\ built = NoBuild
    /\ ret = Undefined
    /\ log = "none"
    /\ now = 0
    /\ material = NoMaterial
    /\ snapshot = NoSnapshot

\* The application creates the viewer and hands it to the store.
setMap ==
    /\ UNCHANGED clockVars
    /\ ~map
    /\ map' = TRUE
    /\ lastCall' = [op |-> "setMap"]
    /\ built' = NoBuild
    /\ ret' = Undefined
    /\ log' = "none"
    /\ UNCHANGED <<graphicMap, primitives, entities, nextHandle, materialType,
                   materialCache, radar>>

\* A call that returns r after logging l and touches nothing else.
Rejected(r, l) ==
    /\ ret' = r
    /\ log' = l
    /\ built' = NoBuild
    /\ UNCHANGED <<map, graphicMap, primitives, entities, nextHandle,
                   materialType, materialCache, radar>>

-----------------------------------------------------------------------------
(* The guards of the create functions *)

\* Mutant: the host check is gone.
mapMissing_never == FALSE

\* if (!map)
mapMissing == ~getMap

\* Mutant: the vertices are looked at before the registry is.
effectExists_afterValidation(options) ==
    /\ Has(options, "positions")
    /\ Len(options.positions) >= 2
    /\ getGraphicMap(options.id) # NoHandle

\* Mutant: the duplicate-id check is gone.
effectExists_never(options) == FALSE

\* if (mapStore.getGraphicMap(options.id))
effectExists(options) == getGraphicMap(options.id) # NoHandle

\* Mutant: the vertex count is compared with 1.
tooFewPoints_offByOne(options) ==
    ~Has(options, "positions") \/ Len(options.positions) < 1

\* if (!options.positions || options.positions.length < 2)
tooFewPoints(options) ==
    ~Has(options, "positions") \/ Len(options.positions) < 2

\* if (!options.positions || options.positions.length < 3)
badConePosition(options) ==
    ~Has(options, "positions") \/ Len(options.positions) < 3

-----------------------------------------------------------------------------
(* Walls *)

\* options.positions.map(pos => [pos[0], pos[1], pos[2] || 0])
coordinatesOf(positions) ==
    [k \in 1..Len(positions) |->
        <<positions[k][1], positions[k][2],
          IF Len(positions[k]) >= 3 THEN positions[k][3] ELSE 0>>]

\* Cartesian3.fromDegreesArrayHeights(coordinates.flat())
fromDegreesArrayHeights(coordinates) ==
    [k \in 1..Len(coordinates) |->
        fromDegrees(coordinates[k][1], coordinates[k][2], coordinates[k][3])]

\* Mutant: one height per wall segment instead of one per vertex.
WallGeometry_heightPerSegment(coordinates, maxHeight) ==
    [kind |-> "wall",
     positions |-> fromDegreesArrayHeights(coordinates),
     minimumHeights |-> [k \in 1..(Len(coordinates) - 1) |-> 0],
     maximumHeights |-> [k \in 1..(Len(coordinates) - 1) |-> maxHeight]]

\* new Cesium.WallGeometry({positions, minimumHeights, maximumHeights})
WallGeometry(coordinates, maxHeight) ==
    [kind |-> "wall",
     positions |-> fromDegreesArrayHeights(coordinates),
     minimumHeights |-> [k \in 1..Len(coordinates) |-> 0],
     maximumHeights |-> [k \in 1..Len(coordinates) |-> maxHeight]]

\* const maxHeight = options.maxHeight || 100
flameMaxHeight(options) == OrDefault(options, "maxHeight", 100)

\* Mutant: the primitive is added and returned but never stored.
AddPrimitive_noStore(id, geometry) ==
    /\ primitives' = primitives \cup {nextHandle}
    /\ nextHandle' = nextHandle + 1
    /\ built' = geometry
    /\ ret' = nextHandle
    /\ log' = "created"
    /\ UNCHANGED <<map, graphicMap, entities, materialType, materialCache, radar>>

\* The primitive is added to the scene, stored under the id and returned.
AddPrimitive(id, geometry) ==
    /\ primitives' = primitives \cup {nextHandle}
    /\ graphicMap' = setGraphicMap(id, nextHandle)
    /\ nextHandle' = nextHandle + 1
    /\ built' = geometry
    /\ ret' = nextHandle
    /\ log' = "created"
    /\ UNCHANGED <<map, entities, materialType, materialCache, radar>>

\* Mutant: the id is stored before the primitive enters the scene, so a
\* throw on insertion leaves the entry behind.
TryAddPrimitive_storeFirst(id, geometry, fault) ==
    IF fault = "add"
    THEN /\ graphicMap' = setGraphicMap(id, nextHandle)
         /\ nextHandle' = nextHandle + 1
         /\ ret' = NullRet
         /\ log' = "createFailed"
         /\ built' = NoBuild
         /\ UNCHANGED <<map, primitives, entities, materialType,
                        materialCache, radar>>
    ELSE IF fault # "none"
    THEN Rejected(NullRet, "createFailed")
    ELSE AddPrimitive(id, geometry)

\* Mutant: the insertion that fails has put the primitive into the scene,
\* and nothing takes it out again.
TryAddPrimitive_insertedOnFailure(id, geometry, fault) ==
    IF fault = "add"
    THEN /\ primitives' = primitives \cup {nextHandle}
         /\ nextHandle' = nextHandle + 1
         /\ ret' = NullRet
         /\ log' = "createFailed"
         /\ built' = NoBuild
         /\ UNCHANGED <<map, graphicMap, entities, materialType,
                        materialCache, radar>>
    ELSE IF fault # "none"
    THEN Rejected(NullRet, "createFailed")
    ELSE AddPrimitive(id, geometry)

\* try { build; primitives.add; setGraphicMap; return primitive }
\* catch (error) { return null }
TryAddPrimitive(id, geometry, fault) ==
    IF fault # "none"
    THEN Rejected(NullRet, "createFailed")
    ELSE AddPrimitive(id, geometry)

\* fenceFlowEffect, the flame wall.
fenceFlowEffect(options, fault) ==
    /\ UNCHANGED clockVars
    /\ nextHandle <= MaxHandles
    /\ IF mapMissing THEN
           /\ lastCall' = [op |-> "fenceFlowEffect", options |-> options, fault |-> "none"]
           /\ Rejected(NullRet, "noMap")
       ELSE IF effectExists(options) THEN
           /\ lastCall' = [op |-> "fenceFlowEffect", options |-> options, fault |-> "none"]
           /\ Rejected(NullRet, "exists")
       ELSE IF tooFewPoints(options) THEN
           /\ lastCall' = [op |-> "fenceFlowEffect", options |-> options, fault |-> "none"]
           /\ Rejected(NullRet, "needTwoPoints")
       ELSE
           /\ lastCall' = [op |-> "fenceFlowEffect", options |-> options, fault |-> fault]
           /\ TryAddPrimitive(options.id,
                  WallGeometry(coordinatesOf(options.positions),
                               flameMaxHeight(options)), fault)

\* fenceFlowEffect, the flowing-light wall: the height is fixed at 100 and a
\* primitive that was built is taken out of the scene again in the catch.
fenceFlowEffect_flow(options, fault) ==
    /\ UNCHANGED clockVars
    /\ nextHandle <= MaxHandles
    /\ IF mapMissing THEN
           /\ lastCall' = [op |-> "fenceFlowEffect_flow", options |-> options, fault |-> "none"]
           /\ Rejected(NullRet, "noMap")
       ELSE IF effectExists(options) THEN
           /\ lastCall' = [op |-> "fenceFlowEffect_flow", options |-> options, fault |-> "none"]
           /\ Rejected(NullRet, "exists")
       ELSE IF tooFewPoints(options) THEN
           /\ lastCall' = [op |-> "fenceFlowEffect_flow", options |-> options, fault |-> "none"]
           /\ Rejected(NullRet, "needTwoPoints")
       ELSE
           /\ lastCall' = [op |-> "fenceFlowEffect_flow", options |-> options, fault |-> fault]
           /\ IF fault # "none"
              THEN \* catch (error): primitives.remove(primitive) of a primitive
                   \* that never entered the scene, return null
                   /\ ret' = NullRet
                   /\ log' = "createFailed"
                   /\ built' = NoBuild
                   /\ primitives' = primitives \ {nextHandle}
                   /\ UNCHANGED <<map, graphicMap, entities, nextHandle,
                                  materialType, materialCache, radar>>
              ELSE AddPrimitive(options.id,
                       WallGeometry(coordinatesOf(options.positions), 100))

-----------------------------------------------------------------------------
(* The sweep material property *)

\* this.opts = { ...defaults, ...options }
Merge(defaults, options) ==
    [f \in DOMAIN defaults \cup DOMAIN options |->
        IF Has(options, f) THEN options[f] ELSE defaults[f]]

\* The constructor of RadarPrimitiveMaterialProperty at wall-clock time t:
\* the fields of the new instance.  thickness is counted in tenths.
RadarPrimitiveMaterialProperty(options, t) ==
    Merge([kind |-> "radarPrimitive", duration |-> 2000, time |-> t,
           repeat |-> 30, offset |-> 0, thickness |-> 3], options)

\* createRadarMaterialProperty(color, thickness = 0.3) of conicalWave.
createRadarMaterialProperty(options, t) ==
    RadarPrimitiveMaterialProperty(
        [thickness |-> IF Has(options, "thickness") THEN options.thickness ELSE 3],
        t)

\* JavaScript a % b for a positive b: the result has the sign of a.
JSRem(a, b) == IF a >= 0 THEN a % b ELSE -((-a) % b)

\* Mutant: the final division by ten is left out.
sweepTime_noTenth(m, t) ==
    [num |-> JSRem(t - m.time, m.duration), den |-> m.duration]

\* result.time = ((new Date().getTime() - time) % duration) / duration / 10,
\* kept exact as the fraction num / den.
sweepTime(m, t) ==
    [num |-> JSRem(t - m.time, m.duration), den |-> m.duration * 10]

-----------------------------------------------------------------------------
(* Cones *)

\* Mutant: the type flag is not consulted.
RegisterRadarMaterial_unguarded ==
    /\ materialType' = TRUE
    /\ materialCache' = materialCache + 1

\* registerRadarMaterial / _registerRadarMaterial: guarded by the type flag.
RegisterRadarMaterial ==
    /\ materialType' = TRUE
    /\ materialCache' = IF materialType THEN materialCache ELSE materialCache + 1

\* The pose conicalWave solves: apex at the anchor, centroid half a length
\* behind it along the axis.
conicalWavePose(options) ==
    LET lng == options.positions[1]
        lat == options.positions[2]
        height == IF Len(options.positions) >= 3 THEN options.positions[3] ELSE 0
        vertexPosition == fromDegrees(lng, lat, height)
        hpr == [heading |-> toRadians(options.heading),
                pitch |-> toRadians(options.pitch), roll |-> 0]
        halfLength == options.length \div 2
        transform == headingPitchRollToFixedFrame(vertexPosition, hpr)
        worldDirection == Normalize(multiplyByPointAsVector(transform, UNIT_Z))
        offset == MultiplyByScalar(worldDirection, halfLength)
    IN  [vertexPosition |-> vertexPosition,
         worldDirection |-> worldDirection,
         cylinderCenter |-> Subtract(vertexPosition, offset),
         orientation |-> headingPitchRollQuaternion(vertexPosition, hpr)]

\* conicalWave (geometry.ts). Nothing catches what the engine throws.
conicalWave(options, fault) ==
    /\ UNCHANGED clockVars
    /\ nextHandle <= MaxHandles
    /\ IF mapMissing THEN
           /\ lastCall' = [op |-> "conicalWave", options |-> options, fault |-> "none"]
           /\ Rejected(NullRet, "noMap")
       ELSE IF effectExists(options) THEN
           /\ lastCall' = [op |-> "conicalWave", options |-> options, fault |-> "none"]
           /\ Rejected(NullRet, "exists")
       ELSE
           /\ lastCall' = [op |-> "conicalWave", options |-> options, fault |-> fault]
           /\ RegisterRadarMaterial
           /\ IF fault # "none"
              THEN /\ ret' = Threw
                   /\ log' = "none"
                   /\ built' = NoBuild
                   /\ UNCHANGED <<map, graphicMap, primitives, entities,
                                  nextHandle, radar>>
              ELSE LET pose == conicalWavePose(options)
                   IN  /\ entities' = entities \cup {nextHandle}
                       /\ graphicMap' = setGraphicMap(options.id, nextHandle)
                       /\ nextHandle' = nextHandle + 1
                       /\ built' = [kind |-> "cylinder",
                                    position |-> pose.cylinderCenter,
                                    orientation |-> pose.orientation,
                                    length |-> options.length,
                                    topRadius |-> 0,
                                    bottomRadius |-> options.bottomRadius,
                                    material |->
                                        createRadarMaterialProperty(options, now)]
                       /\ ret' = nextHandle
                       /\ log' = "none"
                       /\ UNCHANGED <<map, primitives, radar>>

\* const conicalHeight = options.height || 200
conicalHeightOf(options) == OrDefault(options, "height", 200)

\* The model matrix conicalEffect composes:
\* translateToGround * rotateHPR * rotateX * translateUp.
conicalEffectMatrix(options) ==
    LET conicalHeight == conicalHeightOf(options)
        center == fromDegrees(options.positions[1], options.positions[2],
                              options.positions[3])
        hpr == [heading |-> IF Has(options, "heading") THEN options.heading ELSE 0,
                pitch |-> IF Has(options, "pitch") THEN options.pitch ELSE 0,
                roll |-> 0]
        rotateHPR == fromQuaternion(headingPitchRollQuaternion(ZERO, hpr))
        rotation == MatMul(rotateHPR, RotX(1))
    IN  [rotation |-> rotation,
         translation |-> Add(center,
                             MatVec(rotation, <<0, 0, -(conicalHeight \div 2)>>))]

\* conicalEffect (fence module).
conicalEffect(options, fault) ==
    /\ UNCHANGED clockVars
    /\ nextHandle <= MaxHandles
    /\ IF mapMissing THEN
           /\ lastCall' = [op |-> "conicalEffect", options |-> options, fault |-> "none"]
           /\ Rejected(NullRet, "noMap")
       ELSE IF effectExists(options) THEN
           /\ lastCall' = [op |-> "conicalEffect", options |-> options, fault |-> "none"]
           /\ Rejected(NullRet, "exists")
       ELSE IF badConePosition(options) THEN
           /\ lastCall' = [op |-> "conicalEffect", options |-> options, fault |-> "none"]
           /\ Rejected(NullRet, "badPosition")
       ELSE
           /\ lastCall' = [op |-> "conicalEffect", options |-> options, fault |-> fault]
           /\ TryAddPrimitive(options.id,
                  [kind |-> "cylinder",
                   length |-> conicalHeightOf(options),
                   topRadius |-> 0,
                   bottomRadius |-> OrDefault(options, "radius", 50),
                   modelMatrix |-> conicalEffectMatrix(options)], fault)

-----------------------------------------------------------------------------
(* RadarEmission *)

RadarDefaults ==
    [position |-> <<114, 35, 0>>, heading |-> 135, length |-> 500000,
     bottomRadius |-> 50000, thickness |-> 1, pitch |-> 0]

\* createRadarCone, first version of the class: the anchor is taken on the
\* ground, whatever height the position carries.
createRadarCone(options) ==
    LET lng == options.position[1]
        lat == options.position[2]
        vertexPosition == fromDegrees(lng, lat, 0)
        hpr == [heading |-> toRadians(options.heading),
                pitch |-> toRadians(options.pitch), roll |-> 0]
        halfLength == options.length \div 2
        transform == headingPitchRollToFixedFrame(vertexPosition, hpr)
        worldDirection == Normalize(multiplyByPointAsVector(transform, UNIT_Z))
        offset == MultiplyByScalar(worldDirection, halfLength)
    IN  [vertexPosition |-> vertexPosition,
         worldDirection |-> worldDirection,
         cylinderCenter |-> Subtract(vertexPosition, offset),
         orientation |-> headingPitchRollQuaternion(vertexPosition, hpr)]

\* createRadarCone, second version of the class: pitch negated, local axis
\* +Y, orientation taken at the shifted centre.
createRadarCone_2(options) ==
    LET lng == options.position[1]
        lat == options.position[2]
        vertexPosition == fromDegrees(lng, lat, 0)
        originalPitch == toRadians(options.pitch)
        hpr == [heading |-> toRadians(options.heading),
                pitch |-> -originalPitch, roll |-> 0]
        transform == headingPitchRollToFixedFrame(vertexPosition, hpr)
        worldAxis == Normalize(multiplyByPointAsVector(transform, <<0, 1, 0>>))
        halfLength == options.length \div 2
        cylinderCenter == Subtract(vertexPosition,
                                   MultiplyByScalar(worldAxis, halfLength))
    IN  [vertexPosition |-> vertexPosition,
         worldDirection |-> worldAxis,
         cylinderCenter |-> cylinderCenter,
         orientation |-> headingPitchRollQuaternion(cylinderCenter, hpr)]

\* new RadarEmission(viewer, options): init() registers the material and
\* creates the cone; version is the version of the class that is loaded.
Construct(n, version, options, fault, pose) ==
    /\ lastCall' = [op |-> "RadarEmission", instance |-> n, version |-> version,
                    options |-> options, fault |-> fault]
    /\ RegisterRadarMaterial
    /\ IF fault # "none"
       THEN /\ ret' = Threw
            /\ log' = "none"
            /\ built' = NoBuild
            /\ UNCHANGED <<map, graphicMap, primitives, entities, nextHandle, radar>>
       ELSE /\ entities' = entities \cup {nextHandle}
            /\ radar' = [radar EXCEPT ![n] = [version |-> version,
                                               entity |-> nextHandle]]
            /\ nextHandle' = nextHandle + 1
            /\ built' = [kind |-> "cylinder",
                         position |-> pose.cylinderCenter,
                         orientation |-> pose.orientation,
                         length |-> Merge(RadarDefaults, options).length,
                         topRadius |-> 0,
                         bottomRadius |-> Merge(RadarDefaults, options).bottomRadius,
                         material |-> RadarPrimitiveMaterialProperty(
                             [thickness |-> Merge(RadarDefaults, options).thickness],
                             now),
                         point |-> pose.vertexPosition]
            /\ ret' = nextHandle
            /\ log' = "none"
            /\ UNCHANGED <<map, graphicMap, primitives>>

\* The caller holds the viewer and constructs each instance once.
RadarEmission(n, options, fault) ==
    /\ UNCHANGED clockVars
    /\ nextHandle <= MaxHandles
    /\ map
    /\ radar[n].version = 0
    /\ Construct(n, 1, options, fault,
                 createRadarCone(Merge(RadarDefaults, options)))

RadarEmission_2(n, options, fault) ==
    /\ UNCHANGED clockVars
    /\ nextHandle <= MaxHandles
    /\ map
    /\ radar[n].version = 0
    /\ Construct(n, 2, options, fault,
                 createRadarCone_2(Merge(RadarDefaults, options)))

\* if (this.entity)
hasEntity(n) == radar[n].entity # NoEntity

\* Mutant: the entity is removed from the viewer but this.entity is kept.
destroy_keepsEntity(n) ==
    /\ UNCHANGED clockVars
    /\ radar[n].version # 0
    /\ lastCall' = [op |-> "destroy", instance |-> n]
    /\ entities' = entities \ {radar[n].entity}
    /\ ret' = Undefined
    /\ log' = "none"
    /\ built' = NoBuild
    /\ UNCHANGED <<map, graphicMap, primitives, nextHandle, materialType,
                   materialCache, radar>>

\* RadarEmission.destroy()
destroy(n) ==
    /\ UNCHANGED clockVars
    /\ radar[n].version # 0
    /\ lastCall' = [op |-> "destroy", instance |-> n]
    /\ IF hasEntity(n)
       THEN /\ entities' = entities \ {radar[n].entity}
            /\ radar' = [radar EXCEPT ![n].entity = NoEntity]
       ELSE UNCHANGED <<entities, radar>>
    /\ ret' = Undefined
    /\ log' = "none"
    /\ built' = NoBuild
    /\ UNCHANGED <<map, graphicMap, primitives, nextHandle, materialType,
                   materialCache>>

\* RadarEmission.zoomTo()
zoomTo(n) ==
    /\ UNCHANGED clockVars
    /\ radar[n].version # 0
    /\ lastCall' = [op |-> "zoomTo", instance |-> n]
    /\ built' = IF hasEntity(n)
                THEN [kind |-> "zoomTo", target |-> radar[n].entity]
                ELSE NoBuild
    /\ ret' = Undefined
    /\ log' = "none"
    /\ UNCHANGED <<map, graphicMap, primitives, entities, nextHandle,
                   materialType, materialCache, radar>>

\* mapStore.getGraphicMap(id), called by the application.
get(id) ==
    /\ UNCHANGED clockVars
    /\ lastCall' = [op |-> "get", id |-> id]
    /\ ret' = getGraphicMap(id)
    /\ log' = "none"
    /\ built' = NoBuild
    /\ UNCHANGED <<map, graphicMap, primitives, entities, nextHandle,
                   materialType, materialCache, radar>>

-----------------------------------------------------------------------------

Next ==
    \/ setMap
    \/ \E id \in Ids : get(id)
    \/ \E options \in WallOptions, fault \in Faults : fenceFlowEffect(options, fault)
    \/ \E options \in FlowOptions, fault \in Faults : fenceFlowEffect_flow(options, fault)
    \/ \E options \in WaveOptions, fault \in Faults :
          conicalWave(options, fault)
    \/ \E options \in ConeOptions, fault \in Faults : conicalEffect(options, fault)
    \/ \E n \in Instances, options \in RadarOptions, fault \in Faults :
          RadarEmission(n, options, fault)
    \/ \E n \in Instances, options \in RadarOptions, fault \in Faults :
          RadarEmission_2(n, options, fault)
    \/ \E n \in Instances : destroy(n)
    \/ \E n \in Instances : zoomTo(n)

Spec == Init /\ [][Next]_vars

-----------------------------------------------------------------------------
(* The material property on its own: construction, the wall clock, getValue *)

MaxNow == 6

sceneVars == <<map, graphicMap, primitives, entities, nextHandle,
               materialType, materialCache, radar>>

\* Options a caller can hand to the constructor of RadarEmission.js, which
\* spreads whatever it is given over the defaults.
MaterialOptions ==
    {[thickness |-> 1]}
    \cup {[thickness |-> 1, duration |-> d] : d \in {2, 3}}
    \cup {[thickness |-> 1, duration |-> d, time |-> t] :
            d \in {2, 3}, t \in 0..MaxNow}

\* new Date().getTime() grows between two calls.
Tick ==
    /\ now < MaxNow
    /\ now' = now + 1
    /\ UNCHANGED <<sceneVars, lastCall, built, ret, log, material, snapshot>>

\* new RadarPrimitiveMaterialProperty(options), RadarEmission.js
newRadarPrimitiveMaterialProperty(options) ==
    /\ material' = RadarPrimitiveMaterialProperty(options, now)
    /\ lastCall' = [op |-> "RadarPrimitiveMaterialProperty", options |-> options]
    /\ built' = NoBuild
    /\ ret' = Undefined
    /\ log' = "none"
    /\ UNCHANGED <<sceneVars, now, snapshot>>

\* createRadarMaterialProperty(color, thickness), geometry.ts
newRadarMaterialProperty(options) ==
    /\ material' = createRadarMaterialProperty(options, now)
    /\ lastCall' = [op |-> "createRadarMaterialProperty", options |-> options]
    /\ built' = NoBuild
    /\ ret' = Undefined
    /\ log' = "none"
    /\ UNCHANGED <<sceneVars, now, snapshot>>

\* Mutant: the uniforms of the first evaluation are handed out again.
getValue_cached ==
    /\ material # NoMaterial
    /\ snapshot' = IF snapshot # NoSnapshot THEN snapshot
                   ELSE [kind |-> "uniforms",
                         time |-> sweepTime(material, now),
                         repeat |-> material.repeat,
                         offset |-> material.offset,
                         thickness |-> material.thickness]
    /\ lastCall' = [op |-> "getValue", now |-> now,
                    previous |-> IF lastCall.op = "getValue"
                                 THEN lastCall.now ELSE -1]
    /\ built' = NoBuild
    /\ ret' = Undefined
    /\ log' = "none"
    /\ UNCHANGED <<sceneVars, now, material>>

\* getValue(time, result): every field of result is written again; the
\* object returned is snapshot.
getValue ==
    /\ material # NoMaterial
    /\ snapshot' = [kind |-> "uniforms",
                    time |-> sweepTime(material, now),
                    repeat |-> material.repeat,
                    offset |-> material.offset,
                    thickness |-> material.thickness]
    /\ lastCall' = [op |-> "getValue", now |-> now,
                    previous |-> IF lastCall.op = "getValue"
                                 THEN lastCall.now ELSE -1]
    /\ built' = NoBuild
    /\ ret' = Undefined
    /\ log' = "none"
    /\ UNCHANGED <<sceneVars, now, material>>

NextClock ==
    \/ Tick
    \/ \E options \in MaterialOptions : newRadarPrimitiveMaterialProperty(options)
    \/ \E options \in {[id |-> "a"], [id |-> "a", thickness |-> 1]} :
          newRadarMaterialProperty(options)
    \/ getValue

SpecClock == Init /\ [][NextClock]_vars

-----------------------------------------------------------------------------
(* Properties *)

CreateOps == {"fenceFlowEffect", "fenceFlowEffect_flow", "conicalWave", "conicalEffect"}
WallOps == {"fenceFlowEffect", "fenceFlowEffect_flow"}

\* The last call was a create for an id: its id.
CallId == lastCall.options.id

\* The scene and the registry are what they were before the step.
NothingCreated ==
    /\ primitives' = primitives
    /\ entities' = entities
    /\ graphicMap' = graphicMap

\* C1: a create call for an id that already has a live entry returns a
\* failure, adds nothing to the scene and leaves the entry's handle in place.
C1_DuplicateCreateRejected ==
    [][(lastCall'.op \in CreateOps
        /\ graphicMap[lastCall'.options.id] # NoHandle)
       => (ret' = NullRet /\ NothingCreated
           /\ graphicMap'[lastCall'.options.id] = graphicMap[lastCall'.options.id])]_vars

C1_Witness ==
    /\ lastCall.op \in CreateOps
    /\ ret = NullRet
    /\ log = "exists"
    /\ graphicMap[CallId] # NoHandle
    /\ Cardinality({i \in Ids : graphicMap[i] # NoHandle}) = 1

C3_FailedCreateKeepsRegistry ==
    [][(lastCall'.op \in CreateOps /\ ret' \in {NullRet, Threw})
       => graphicMap' = graphicMap]_vars

C3_Witness ==
    /\ lastCall.op \in CreateOps
    /\ lastCall.fault = "add"
    /\ ret = NullRet
    /\ log = "createFailed"
    /\ graphicMap[CallId] = NoHandle
    /\ \E i \in Ids : graphicMap[i] # NoHandle

\* C4 as claimed: every create call in which the rendering engine throws
\* returns a failure value.
C4_ConstructionFailureReturned ==
    (lastCall.op \in CreateOps /\ lastCall.fault # "none") => ret = NullRet

\* C5: a create call with the host available, the id not live, a valid spec
\* and no construction failure stores the engine's handle under the id and
\* returns that handle; a get of the id right after returns it and leaves the
\* registry alone.
ValidSpec(call) ==
    CASE call.op \in WallOps ->
            Has(call.options, "positions") /\ Len(call.options.positions) >= 2
      [] call.op = "conicalEffect" ->
            Has(call.options, "positions") /\ Len(call.options.positions) >= 3
      [] OTHER -> TRUE

C5_SuccessStoresReturnedHandle ==
    [][/\ (lastCall'.op \in CreateOps
           /\ map
           /\ graphicMap[lastCall'.options.id] = NoHandle
           /\ ValidSpec(lastCall')
           /\ lastCall'.fault = "none")
          => /\ ret' = nextHandle
             /\ ret' \in primitives' \cup entities'
             /\ graphicMap' = [graphicMap EXCEPT ![lastCall'.options.id] = ret']
       /\ (lastCall'.op = "get" /\ lastCall.op \in CreateOps /\ ret > 0
           /\ lastCall'.id = lastCall.options.id)
          => (ret' = ret /\ graphicMap' = graphicMap)]_vars

C5_Witness ==
    /\ lastCall.op \in CreateOps
    /\ ret > 0
    /\ graphicMap[CallId] = ret
    /\ ret \in primitives \cup entities

\* C6: with no map instance a create call returns a failure, registers no
\* material type, adds nothing to the scene and leaves the registry alone.
C6_NoHostNoEffect ==
    [][(lastCall'.op \in CreateOps /\ ~map)
       => /\ ret' = NullRet
          /\ NothingCreated
          /\ materialType' = materialType
          /\ materialCache' = materialCache]_vars

C6_Witness ==
    /\ lastCall.op = "conicalWave"
    /\ ~map
    /\ ret = NullRet
    /\ log = "noMap"
    /\ ~materialType

\* C7: a wall create for a fresh id with the host available is rejected when
\* the vertices are missing or fewer than 2, creating and registering
\* nothing; with 2 or more vertices it is not rejected for its vertices, and
\* unless the engine throws it registers the wall under the id.
C7_WallVertexCount ==
    [][(lastCall'.op \in WallOps /\ map
        /\ graphicMap[lastCall'.options.id] = NoHandle)
       => IF ~Has(lastCall'.options, "positions")
             \/ Len(lastCall'.options.positions) < 2
          THEN ret' = NullRet /\ log' = "needTwoPoints" /\ NothingCreated
          ELSE /\ log' # "needTwoPoints"
               /\ lastCall'.fault = "none"
                  => /\ ret' = nextHandle
                     /\ ret' \in primitives'
                     /\ graphicMap'[lastCall'.options.id] = ret']_vars

C7_Witness ==
    /\ lastCall.op \in WallOps
    /\ Has(lastCall.options, "positions")
    /\ Len(lastCall.options.positions) = 1
    /\ ret = NullRet
    /\ log = "needTwoPoints"

\* C8 as claimed: a cone create that is given the axial length 0 creates
\* nothing and returns no handle.
SuppliedLength(call) ==
    CASE call.op = "conicalWave" -> {call.options.length}
      [] call.op = "conicalEffect" /\ Has(call.options, "height") ->
            {call.options.height}
      [] OTHER -> {}

C8_ZeroLengthRejected ==
    (lastCall.op \in {"conicalWave", "conicalEffect"}
     /\ \E l \in SuppliedLength(lastCall) : l <= 0)
    => (ret <= 0 /\ built = NoBuild)

\* C9 as claimed: a wall create that is given a maxHeight at or below the
\* minimum height 0 creates nothing and returns no handle.
C9_NonPositiveHeightRejected ==
    (lastCall.op = "fenceFlowEffect"
     /\ Has(lastCall.options, "maxHeight")
     /\ lastCall.options.maxHeight <= 0)
    => (ret <= 0 /\ built = NoBuild)

\* C10 as claimed: the centre a cone pose solver puts out lies half the axial
\* length behind the anchor, height included, along the direction that the
\* heading-pitch-roll frame at the anchor gives the local Z axis.
AnchorOf(call) ==
    LET p == IF call.op = "conicalWave" THEN call.options.positions
             ELSE call.options.position
    IN  fromDegrees(p[1], p[2], IF Len(p) >= 3 THEN p[3] ELSE 0)

AxisAt(call) ==
    LET hpr == [heading |-> toRadians(call.options.heading),
                pitch |-> toRadians(call.options.pitch), roll |-> 0]
    IN  Normalize(MatVec(
            MatMul(eastNorthUp(AnchorOf(call)), fromHeadingPitchRoll(hpr)),
            UNIT_Z))

PoseSolved ==
    /\ ret > 0
    /\ \/ lastCall.op = "conicalWave"
       \/ lastCall.op = "RadarEmission" /\ lastCall.version = 1

C10_ApexAtAnchor ==
    PoseSolved
    => Add(built.position, MultiplyByScalar(AxisAt(lastCall), built.length \div 2))
       = AnchorOf(lastCall)

-----------------------------------------------------------------------------
(* The sweep phase *)

\* The last call was getValue: snapshot holds what it returned, at wall-clock
\* time lastCall.now, for the material as it still is.
Evaluated == lastCall.op = "getValue"

\* This step is a getValue call.
GetValueStep == lastCall'.op = "getValue" /\ now' = now

\* Two exact fractions are the same number.
SameFraction(x, y) == x.num * y.den = y.num * x.den

\* (t - origin) mod period, the mathematical remainder in 0..period-1.
FlooredRemainder(m, t) == (t - m.time) % m.duration

\* The remainder that takes the sign of t - origin.
TruncatedRemainder(m, t) ==
    LET d == t - m.time
        q == IF d >= 0 THEN d \div m.duration ELSE -((-d) \div m.duration)
    IN  d - m.duration * q

C12_PhasePeriodic ==
    [][GetValueStep =>
        /\ (now >= material.time /\ FlooredRemainder(material, now) = 0
                => snapshot'.time.num = 0)
        /\ (Evaluated /\ now = lastCall.now + material.duration
                => SameFraction(snapshot'.time, snapshot.time))]_vars

\* C13, as stated: two evaluations of one material at different times
\* yield different phases, and an evaluation leaves the material as it was.
C13_DifferentTimesDifferentPhases ==
    [][GetValueStep =>
        /\ material' = material
        /\ (Evaluated /\ now # lastCall.now
                => ~SameFraction(snapshot'.time, snapshot.time))]_vars

\* C13, amended: every evaluation computes the phase from the wall clock
\* of that moment and leaves the material as it was; two evaluations of one
\* material yield different phases unless their times differ by a multiple
\* of periodMs.
C13_RecomputedFromClock ==
    [][GetValueStep =>
        /\ material' = material
        /\ SameFraction(snapshot'.time,
                        [num |-> TruncatedRemainder(material, now),
                         den |-> 10 * material.duration])
        /\ (Evaluated /\ (now - lastCall.now) % material.duration # 0
                => ~SameFraction(snapshot'.time, snapshot.time))]_vars

\* One material evaluated a second time, at a later moment.
C13_Witness ==
    /\ Evaluated
    /\ lastCall.previous # -1
    /\ lastCall.previous # lastCall.now

-----------------------------------------------------------------------------
(* Registration of the sweep material type *)

\* The last call handed the engine a cone that uses the sweep material.
SweepConeBuilt ==
    /\ Has(built, "material")
    /\ built.material.kind = "radarPrimitive"

\* C14: over any sequence of conicalWave calls and RadarEmission
\* constructions, failed ones included, the sweep material type is added to
\* the engine's material table at most once, and it is in the table whenever
\* a cone that uses it is built or is in the scene.
C14_RegisteredOnceBeforeUse ==
    /\ materialCache <= 1
    /\ materialType <=> materialCache = 1
    /\ SweepConeBuilt => materialCache = 1
    /\ entities # {} => materialCache = 1

\* A second cone was built, by the other of the two creators, after the
\* type had been registered.
C14_Witness ==
    /\ SweepConeBuilt
    /\ Cardinality(entities) >= 2
    /\ lastCall.op = "RadarEmission"
    /\ \E i \in Ids : getGraphicMap(i) \in entities

-----------------------------------------------------------------------------
(* The wall geometry *)

\* The last call handed a wall geometry to the engine for a valid wall spec:
\* two or more vertices and, where a maxHeight is given, a positive one.
ValidWallBuilt ==
    /\ lastCall.op \in WallOps
    /\ built.kind = "wall"
    /\ Len(lastCall.options.positions) >= 2
    /\ Has(lastCall.options, "maxHeight") => lastCall.options.maxHeight > 0

\* The height a valid wall spec asks for: its maxHeight, 100 without one.
SpecMaxHeight(call) ==
    IF Has(call.options, "maxHeight") THEN call.options.maxHeight ELSE 100

\* C15: for a valid wall spec with n >= 2 vertices the wall geometry gets
\* exactly n positions, the vertices in input order (a missing height read
\* as 0), with n minimum heights 0 and n maximum heights, each the spec's
\* maxHeight.
C15_WallColumns ==
    ValidWallBuilt =>
        LET positions == lastCall.options.positions
            n == Len(positions)
        IN  /\ Len(built.positions) = n
            /\ Len(built.minimumHeights) = n
            /\ Len(built.maximumHeights) = n
            /\ \A k \in 1..n :
                  /\ built.positions[k] =
                        fromDegrees(positions[k][1], positions[k][2],
                                    IF Len(positions[k]) >= 3
                                    THEN positions[k][3] ELSE 0)
                  /\ built.minimumHeights[k] = 0
                  /\ built.maximumHeights[k] = SpecMaxHeight(lastCall)

\* A flame wall of the longest vertex list, with a maxHeight of its own.
C15_Witness ==
    /\ ValidWallBuilt
    /\ lastCall.op = "fenceFlowEffect"
    /\ Len(built.positions) = MaxVerts
    /\ built.positions[1] # built.positions[2]
    /\ Has(lastCall.options, "maxHeight")
    /\ built.maximumHeights[MaxVerts] = 50

-----------------------------------------------------------------------------
(* The cone pose solvers compared *)

\* The last call solved a pose and handed the cone to the engine.
ConeBuilt ==
    /\ ret > 0
    /\ lastCall.op \in {"conicalWave", "RadarEmission"}

\* The point the solver offset the centre from: its vertexPosition.
OffsetOrigin ==
    IF lastCall.op = "RadarEmission" THEN built.point ELSE AnchorOf(lastCall)

\* C16: in every cone pose solver the orientation is taken from the
\* heading-pitch-roll frame whose tangent frame sits at the point the centre
\* was offset from, never at the shifted centre.
C16_OrientationAtAnchor ==
    ConeBuilt =>
        /\ built.orientation.frameOrigin = OffsetOrigin
        /\ built.position # OffsetOrigin
              => built.orientation.frameOrigin # built.position

\* The inputs of the last cone call as each solver takes them.
SolverInput ==
    IF lastCall.op = "conicalWave"
    THEN [positions |-> lastCall.options.positions,
          position |-> lastCall.options.positions,
          heading |-> lastCall.options.heading,
          pitch |-> lastCall.options.pitch,
          length |-> lastCall.options.length]
    ELSE LET o == Merge(RadarDefaults, lastCall.options)
         IN  [positions |-> o.position, position |-> o.position,
              heading |-> o.heading, pitch |-> o.pitch, length |-> o.length]

\* C17: every cone pose solver applies the caller's pitch with its sign
\* unchanged, and the solvers, given the same anchor, heading, pitch and
\* axial length, put out the same centre and orientation.
C17_SolversAgree ==
    ConeBuilt =>
        /\ built.orientation.hpr.pitch = toRadians(SolverInput.pitch)
        /\ \A pose \in {conicalWavePose(SolverInput),
                         createRadarCone(SolverInput),
                         createRadarCone_2(SolverInput)} :
              /\ pose.cylinderCenter = built.position
              /\ pose.orientation = built.orientation

-----------------------------------------------------------------------------
(* The order of the checks in a create *)

\* C18: with the host available, a create whose id has a live entry is
\* answered "already exists" and creates nothing, whether or not its spec
\* is valid; a create is rejected for its spec only when its id has no live
\* entry.
C18_ExistsBeforeValidation ==
    [][(lastCall'.op \in CreateOps /\ map)
       => /\ graphicMap[lastCall'.options.id] # NoHandle
               => (log' = "exists" /\ ret' = NullRet /\ NothingCreated)
          /\ log' \in {"needTwoPoints", "badPosition"}
               => /\ graphicMap[lastCall'.options.id] = NoHandle
                  /\ ~ValidSpec(lastCall')]_vars

\* A wall create with one vertex for an id that is live: "already exists".
C18_Witness ==
    /\ lastCall.op \in WallOps
    /\ Has(lastCall.options, "positions")
    /\ Len(lastCall.options.positions) = 1
    /\ graphicMap[CallId] # NoHandle
    /\ ret = NullRet
    /\ log = "exists"

-----------------------------------------------------------------------------
(* Scene and registry *)

\* What the create functions have put into the scene and is still there:
\* every primitive, and every entity that is not a RadarEmission's own.
CreatedInScene ==
    primitives \cup (entities \ {radar[n].entity : n \in Instances})

=============================================================================
